---- MODULE Spec2Model ----
(***************************************************************************)
(* Relationship and engagement services of the social/dating backend:      *)
(* BlockService, FollowService, DatingService, LikeService, CommentService *)
(* and BookmarkService, each a set of write transactions on one graph.     *)
(*                                                                         *)
(* Reading of the source.                                                  *)
(*  - The graph holds User and Post nodes that already exist and are       *)
(*    well formed (every field of the User and Post models present, the    *)
(*    counters 0 as written by the creating queries); relationships are    *)
(*    created only by the operations below, so none exist initially.       *)
(*  - A query is read clause by clause: MATCH binds rows, a WHERE drops    *)
(*    rows, an updating clause runs once per row that reaches it.          *)
(*  - session.execute_write commits when the transaction function returns  *)
(*    and rolls back when it raises; the Python around each query (guards, *)
(*    result.single(), record construction, except clauses) is followed    *)
(*    as written.                                                          *)
(*  - AuthService, ProfileService and the profile matching of              *)
(*    DatingService are modelled the same way. The specifications of the   *)
(*    read operations and of operations whose case needs edges or nodes    *)
(*    that no write of the program commits (BLOCKS edges, Bookmark nodes)  *)
(*    start from a stored graph that already holds them: InitMatches,      *)
(*    InitAuth, InitBookmarked, InitStored.                                *)
(***************************************************************************)
EXTENDS Integers, FiniteSets, Sequences, TLC

\* ----------------------------------------------------------------- bounds
NumUsers == 2
NumPosts == 2
MaxComments == 3
MaxProfiles == 3
MaxScore == 1
MaxLimit == 2
MaxOffset == 1
NumAuthIds == 3
NumMatchIds == 2

Users == 1..NumUsers
Posts == 1..NumPosts
AuthIds == 1..NumAuthIds
CommentIds == 1..MaxComments

Pairs == Users \X Users

\* ordered pairs of two different users
DistinctPairs == {p \in Pairs : p[1] # p[2]}

\* A nullable number is <<>> when the property is absent (null in a query)
\* and <<n>> when it holds n.
Null == <<>>

\* coalesce(x, d)
Coalesce(x, d) == IF x = Null THEN d ELSE x[1]

Max(a, b) == IF a >= b THEN a ELSE b

VARIABLES
    is_private,        \* User.is_private
    has_location,      \* User.latitude and User.longitude are set
    follower_count,    \* User.follower_count
    following_count,   \* User.following_count
    follows,           \* number of FOLLOWS edges per ordered pair
    requests,          \* number of PENDING REQUESTED_TO_FOLLOW edges per ordered pair
    blocks,            \* BLOCKS edges
    dating_actions,    \* DATING_ACTION edges <<user, target, type>>
    dating_matches,    \* DATING_MATCH edges <<user, target>> as created
    match_id,          \* match_id and created_at of the DATING_MATCH edge of a pair, 0 without edge
    likes,             \* number of LIKED edges per <<user, post>>
    like_count,        \* Post.like_count
    comments,          \* Comment nodes: [id, post, user], each with its ON_POST edge
    comment_count,     \* Post.comment_count
    next_comment,      \* comment ids handed out so far (uuid4 never repeats)
    bookmarks,         \* Bookmark nodes: [user, post], each with BOOKMARKED and BOOKMARKS edges
    bookmark_count,    \* Post.bookmark_count (absent until first set)
    profiles,          \* DatingProfile nodes: [id, user, visible], each with HAS_DATING_PROFILE
    auth_users,        \* number of User nodes per auth_id
    last               \* the most recent call and how it ended

socialVars == <<follower_count, following_count, follows, requests, blocks>>
datingVars == <<dating_actions, dating_matches, match_id>>
likeVars == <<likes, like_count>>
commentVars == <<comments, comment_count, next_comment>>
bookmarkVars == <<bookmarks, bookmark_count>>
userVars == <<is_private, has_location>>
profileVars == <<profiles>>
authVars == <<auth_users>>

vars == <<is_private, has_location, follower_count, following_count, follows,
          requests, blocks, dating_actions, dating_matches, match_id, likes,
          like_count,
          comments, comment_count, next_comment, bookmarks, bookmark_count,
          profiles, auth_users, last>>

\* The call just made: operation, its two id arguments, its enum argument, and
\* the class of the value returned or of the exception raised.
Call(op, a, b, c, res) == [op |-> op, a |-> a, b |-> b, c |-> c, res |-> res]

NoCall == Call("none", 0, 0, "", "")

\* ------------------------------------------------------------------ Init
\* Existing users and posts without relationships: counters 0 as the creating
\* queries write them, no coordinates until update_location, and
\* Post.bookmark_count not written at creation. User.is_private is a required
\* boolean of the stored user.
InitStore(private, R, B, M, A, registered, S) ==
    /\ is_private = private
    /\ has_location = [u \in Users |-> FALSE]
    /\ follower_count = [u \in Users |-> 0]
    /\ following_count = [u \in Users |-> 0]
    /\ follows = [p \in Pairs |-> 0]
    /\ requests = [p \in Pairs |-> IF p \in R THEN 1 ELSE 0]
    /\ blocks = B
    /\ dating_actions = A
    /\ dating_matches = M
    /\ match_id = [p \in Pairs |-> IF p \in M THEN 1 ELSE 0]
    /\ likes = [p \in Users \X Posts |-> 0]
    /\ like_count = [p \in Posts |-> 0]
    /\ comments = {}
    /\ comment_count = [p \in Posts |-> 0]
    /\ next_comment = 0
    /\ bookmarks = {[id |-> (b[1] - 1) * NumPosts + b[2], user |-> b[1], post |-> b[2]] :
                        b \in S}
    /\ bookmark_count = [p \in Posts |->
                            IF \A b \in S : b[2] # p THEN Null
                            ELSE <<Cardinality({b \in S : b[2] = p})>>]
    /\ profiles = {}
    /\ auth_users = [a \in AuthIds |-> IF a \in registered THEN 1 ELSE 0]
    /\ last = NoCall

\* no relationship and no registered Auth0 subject yet
InitGraph(private) == InitStore(private, {}, {}, {}, {}, {}, {})

\* every user as created
InitPublic == InitGraph([u \in Users |-> FALSE])

\* any mix of public and private accounts
Init == \E private \in [Users -> BOOLEAN] : InitGraph(private)

\* A record class can be built from a row (Model(**row)) when the row carries
\* every required field of the class; extra keys are ignored.
RecordBuilds(required, keys) == required \subseteq keys

\* ============================================================ BlockService

\* Keys of the map the block query returns.
CreateBlockRow ==
    {"success", "blocked_user", "removed_forward_follow", "removed_reverse_follow"}

\* Required fields of CreateBlockRecord.
CreateBlockRecord ==
    {"success", "blocked_user_id", "removed_forward_follow", "removed_reverse_follow"}

\* Rows of the block query: one per combination of matched f1 and f2 edges,
\* an OPTIONAL MATCH without a match keeping the row with null.
BlockRows(o, t) == Max(follows[<<o, t>>], 1) * Max(follows[<<t, o>>], 1)

\* The graph as the block query leaves it inside its transaction.
BlockTxFollows(o, t) ==
    [follows EXCEPT ![<<o, t>>] = 0, ![<<t, o>>] = 0]

BlockTxFollowing(o, t) ==
    [following_count EXCEPT
        ![o] = IF follows[<<o, t>>] > 0 THEN @ - BlockRows(o, t) ELSE @,
        ![t] = IF follows[<<t, o>>] > 0 THEN @ - BlockRows(o, t) ELSE @]

BlockTxFollower(o, t) ==
    [follower_count EXCEPT
        ![o] = IF follows[<<t, o>>] > 0 THEN @ - BlockRows(o, t) ELSE @,
        ![t] = IF follows[<<o, t>>] > 0 THEN @ - BlockRows(o, t) ELSE @]

\* BlockService.block
Block(o, t) ==
    /\ IF o = t
       THEN /\ last' = Call("block", o, t, "", "BlockError")
            /\ UNCHANGED socialVars
       ELSE IF RecordBuilds(CreateBlockRecord, CreateBlockRow)
       THEN /\ follows' = BlockTxFollows(o, t)
            /\ following_count' = BlockTxFollowing(o, t)
            /\ follower_count' = BlockTxFollower(o, t)
            /\ blocks' = blocks \cup {<<o, t>>}
            /\ UNCHANGED requests
            /\ last' = Call("block", o, t, "", "CreateBlockRecord")
       ELSE \* the record cannot be built: the function raises, the
            \* transaction is rolled back, block() wraps the error
            /\ last' = Call("block", o, t, "", "BlockError")
            /\ UNCHANGED socialVars
    /\ UNCHANGED <<profileVars, authVars>>
    /\ UNCHANGED <<userVars, datingVars, likeVars, commentVars, bookmarkVars>>

\* Column names of the row the unblock query returns: its RETURN has no alias.
RemoveBlockColumns == {"{success: true, blocker_exists: blocker_exists, ...}"}

\* BlockService.unblock
Unblock(o, t) ==
    /\ IF o = t
       THEN /\ last' = Call("unblock", o, t, "", "BlockError")
            /\ UNCHANGED socialVars
       ELSE IF "result" \in RemoveBlockColumns
       THEN /\ blocks' = blocks \ {<<o, t>>}
            /\ UNCHANGED <<follower_count, following_count, follows, requests>>
            /\ last' = Call("unblock", o, t, "", "None")
       ELSE \* data["result"] raises KeyError, which unblock() does not catch
            /\ last' = Call("unblock", o, t, "", "KeyError")
            /\ UNCHANGED socialVars
    /\ UNCHANGED <<profileVars, authVars>>
    /\ UNCHANGED <<userVars, datingVars, likeVars, commentVars, bookmarkVars>>

\* a test of the edge from a to b only
BlockedOneWay(a, b) == <<a, b>> \in blocks

\* a BLOCKS edge in either direction
Blocked(a, b) == <<a, b>> \in blocks \/ <<b, a>> \in blocks

\* =========================================================== FollowService

\* the follow query without existing_req IS NULL AND existing_follow IS NULL
FollowRowRepeated(o, t) ==
    /\ o # t
    /\ ~(<<o, t>> \in blocks \/ <<t, o>> \in blocks)

\* the follow query without b1 IS NULL AND b2 IS NULL
FollowRowUnblocked(o, t) ==
    /\ o # t
    /\ requests[<<o, t>>] = 0
    /\ follows[<<o, t>>] = 0

\* The follow query returns a row.
FollowRow(o, t) ==
    /\ o # t
    /\ ~Blocked(o, t)
    /\ requests[<<o, t>>] = 0
    /\ follows[<<o, t>>] = 0

PrivateNever(t) == FALSE

\* The first branch of the CALL subquery keeps the row (is_private = true);
\* the second keeps it otherwise.
Private(t) == is_private[t] = TRUE

\* FollowService.follow_user
FollowUser(o, t) ==
    /\ IF o # t /\ FollowRow(o, t)
       THEN IF Private(t)
            THEN /\ requests' = [requests EXCEPT ![<<o, t>>] = @ + 1]
                 /\ UNCHANGED <<follows, follower_count, following_count>>
                 /\ last' = Call("follow_user", o, t, "request", "CreateFollowRecord")
            ELSE /\ follows' = [follows EXCEPT ![<<o, t>>] = @ + 1]
                 /\ following_count' = [following_count EXCEPT ![o] = @ + 1]
                 /\ follower_count' = [follower_count EXCEPT ![t] = @ + 1]
                 /\ UNCHANGED requests
                 /\ last' = Call("follow_user", o, t, "direct", "CreateFollowRecord")
       ELSE /\ last' = Call("follow_user", o, t, "", "FollowCreationError")
            /\ UNCHANGED <<follows, requests, follower_count, following_count>>
    /\ UNCHANGED <<profileVars, authVars>>
    /\ UNCHANGED <<blocks, userVars, datingVars, likeVars, commentVars, bookmarkVars>>

\* accept_request without DELETE request
AcceptRequestKeeps(r, t) ==
    /\ LET n == requests[<<r, t>>] IN
       IF n > 0
       THEN /\ UNCHANGED requests
            /\ follows' = [follows EXCEPT ![<<r, t>>] = @ + n]
            /\ following_count' = [following_count EXCEPT ![r] = @ + n]
            /\ follower_count' = [follower_count EXCEPT ![t] = @ + n]
            /\ last' = Call("accept_request", r, t, "", "AcceptFollowRequestRecord")
       ELSE /\ last' = Call("accept_request", r, t, "", "FollowRequestNotFoundError")
            /\ UNCHANGED <<follows, requests, follower_count, following_count>>
    /\ UNCHANGED <<profileVars, authVars>>
    /\ UNCHANGED <<blocks, userVars, datingVars, likeVars, commentVars, bookmarkVars>>

\* FollowService.accept_request
AcceptRequest(r, t) ==
    /\ LET n == requests[<<r, t>>] IN
       IF n > 0
       THEN /\ requests' = [requests EXCEPT ![<<r, t>>] = 0]
            /\ follows' = [follows EXCEPT ![<<r, t>>] = @ + n]
            /\ following_count' = [following_count EXCEPT ![r] = @ + n]
            /\ follower_count' = [follower_count EXCEPT ![t] = @ + n]
            /\ last' = Call("accept_request", r, t, "", "AcceptFollowRequestRecord")
       ELSE /\ last' = Call("accept_request", r, t, "", "FollowRequestNotFoundError")
            /\ UNCHANGED <<follows, requests, follower_count, following_count>>
    /\ UNCHANGED <<profileVars, authVars>>
    /\ UNCHANGED <<blocks, userVars, datingVars, likeVars, commentVars, bookmarkVars>>

\* FollowService.deny_request
DenyRequest(r, t) ==
    /\ IF requests[<<r, t>>] > 0
       THEN /\ requests' = [requests EXCEPT ![<<r, t>>] = 0]
            /\ last' = Call("deny_request", r, t, "", "None")
       ELSE /\ last' = Call("deny_request", r, t, "", "FollowRequestNotFoundError")
            /\ UNCHANGED requests
    /\ UNCHANGED <<profileVars, authVars>>
    /\ UNCHANGED <<follows, follower_count, following_count, blocks, userVars,
                   datingVars, likeVars, commentVars, bookmarkVars>>

UnfollowUserOneSided(o, t) ==
    /\ LET n == follows[<<o, t>>] IN
       IF n > 0
       THEN /\ follows' = [follows EXCEPT ![<<o, t>>] = 0]
            /\ following_count' = [following_count EXCEPT ![o] = @ - n]
            /\ UNCHANGED follower_count
            /\ last' = Call("unfollow_user", o, t, "", "None")
       ELSE /\ last' = Call("unfollow_user", o, t, "", "FollowNotFoundError")
            /\ UNCHANGED <<follows, follower_count, following_count>>
    /\ UNCHANGED <<profileVars, authVars>>
    /\ UNCHANGED <<requests, blocks, userVars, datingVars, likeVars, commentVars,
                   bookmarkVars>>

\* FollowService.unfollow_user
UnfollowUser(o, t) ==
    /\ LET n == follows[<<o, t>>] IN
       IF n > 0
       THEN /\ follows' = [follows EXCEPT ![<<o, t>>] = 0]
            /\ following_count' = [following_count EXCEPT ![o] = @ - n]
            /\ follower_count' = [follower_count EXCEPT ![t] = @ - n]
            /\ last' = Call("unfollow_user", o, t, "", "None")
       ELSE /\ last' = Call("unfollow_user", o, t, "", "FollowNotFoundError")
            /\ UNCHANGED <<follows, follower_count, following_count>>
    /\ UNCHANGED <<profileVars, authVars>>
    /\ UNCHANGED <<requests, blocks, userVars, datingVars, likeVars, commentVars,
                   bookmarkVars>>

NextSocial ==
    \E o \in Users, t \in Users :
        \/ Block(o, t)
        \/ Unblock(o, t)
        \/ FollowUser(o, t)
        \/ AcceptRequest(o, t)
        \/ DenyRequest(o, t)
        \/ UnfollowUser(o, t)

SpecSocial == Init /\ [][NextSocial]_vars

\* ========================================================== ProfileService

\* ProfileService.update_location, with coordinates inside the accepted ranges
UpdateLocation(u) ==
    /\ has_location' = [has_location EXCEPT ![u] = TRUE]
    /\ last' = Call("update_location", u, 0, "", "User")
    /\ UNCHANGED <<profileVars, authVars>>
    /\ UNCHANGED <<is_private, socialVars, datingVars, likeVars, commentVars,
                   bookmarkVars>>

\* =========================================================== DatingService

\* InteractionType members accepted by record_dating_action
DatingTypes == {"SWIPE_RIGHT", "SWIPE_LEFT", "SUPER_LIKE"}

\* InteractionType members a caller may pass (COMMENT stands for the others)
ActionTypes == DatingTypes \cup {"COMMENT"}

\* the types the record query tests with action.type IN [...]
PositiveTypes == {"SWIPE_RIGHT", "SUPER_LIKE"}

\* they_like OR they_super, evaluated for the edges from t to u
TheyLike(u, t) ==
    <<t, u, "SWIPE_RIGHT">> \in dating_actions \/ <<t, u, "SUPER_LIKE">> \in dating_actions

MatchRowOneSided(u, t, a) == a \in PositiveTypes

\* The record query returns a row (and has MERGEd the DATING_MATCH edge).
MatchRow(u, t, a) == a \in PositiveTypes /\ TheyLike(u, t)

\* exists((u)-[:DATING_MATCH]-(t)): the pattern is undirected
\* a MERGE of the directed pattern (user)-[:DATING_MATCH]->(target)
HasMatchDirected(u, t) == <<u, t>> \in dating_matches

\* the values uuid4() and the clock give a call, as far as they can differ
MatchIds == 1..NumMatchIds

HasMatch(u, t) == <<u, t>> \in dating_matches \/ <<t, u>> \in dating_matches

\* distance_miles of the returned row is a number: point.distance is null
\* when a coordinate of either user is null
DistanceKnown(u, t) == has_location[u] /\ has_location[t]

DatingGuardTypeOnly(u, t, a) == a \notin DatingTypes

\* The checks of record_dating_action before it opens a session
DatingGuard(u, t, a) == u = t \/ a \notin DatingTypes

\* DatingService.record_dating_action
RecordDatingAction(u, t, a) ==
    /\ IF DatingGuard(u, t, a)
       THEN /\ last' = Call("record_dating_action", u, t, a, "ActionRecordingError")
            /\ UNCHANGED datingVars
       ELSE IF Blocked(u, t)
       THEN /\ last' = Call("record_dating_action", u, t, a, "ActionRecordingError")
            /\ UNCHANGED datingVars
       ELSE IF ~MatchRow(u, t, a)
       THEN \* no row: the action edge is merged, None is returned
            /\ dating_actions' = dating_actions \cup {<<u, t, a>>}
            /\ UNCHANGED <<dating_matches, match_id>>
            /\ last' = Call("record_dating_action", u, t, a, "None")
       ELSE IF DistanceKnown(u, t)
       THEN /\ dating_actions' = dating_actions \cup {<<u, t, a>>}
            /\ dating_matches' = IF HasMatch(u, t) THEN dating_matches
                                 ELSE dating_matches \cup {<<u, t>>}
            \* ON CREATE SET match.match_id = $match_id, match.created_at = ...
            /\ \E id \in MatchIds :
                  match_id' = IF HasMatch(u, t) THEN match_id
                              ELSE [match_id EXCEPT ![<<u, t>>] = id]
            /\ last' = Call("record_dating_action", u, t, a, "DatingMatch")
       ELSE \* DatingMatch(distance_miles=None) is rejected; the except clause
            \* re-raises and the transaction is rolled back
            /\ last' = Call("record_dating_action", u, t, a, "MatchCreationError")
            /\ UNCHANGED datingVars
    /\ UNCHANGED <<profileVars, authVars>>
    /\ UNCHANGED <<userVars, socialVars, likeVars, commentVars, bookmarkVars>>

NextDating ==
    \/ \E u \in Users : UpdateLocation(u)
    \/ \E u \in Users, t \in Users, a \in ActionTypes : RecordDatingAction(u, t, a)

SpecDating == InitPublic /\ [][NextDating]_vars

\* A stored graph: at most one BLOCKS edge, any positive DATING_ACTION edges,
\* DATING_MATCH edges only between users who swiped right on each other
InitSwiped ==
    \E B \in {{}} \cup {{p} : p \in DistinctPairs}, A \in SUBSET DistinctPairs :
      \E M \in SUBSET {p \in A : p[1] < p[2] /\ <<p[2], p[1]>> \in A} :
        InitStore([u \in Users |-> FALSE], {}, B, M,
                  {<<p[1], p[2], "SWIPE_RIGHT">> : p \in A}, {}, {})

\* dating actions on a stored graph
SpecSwiped == InitSwiped /\ [][NextDating]_vars

NextGraph ==
    \/ NextSocial
    \/ NextDating

SpecGraph == Init /\ [][NextGraph]_vars

\* ============================================================= LikeService

MergeCreatesAlways(u, p) == TRUE

\* MERGE (user)-[r:LIKED]->(post) takes its ON CREATE branch
MergeCreates(u, p) == likes[<<u, p>>] = 0

\* LikeService.like_post: the edge is created, and counted, only ON CREATE
LikePost(u, p) ==
    /\ IF MergeCreates(u, p)
       THEN /\ likes' = [likes EXCEPT ![<<u, p>>] = @ + 1]
            /\ like_count' = [like_count EXCEPT ![p] = @ + 1]
       ELSE UNCHANGED likeVars
    /\ last' = Call("like_post", u, p, "", "Like")
    /\ UNCHANGED <<profileVars, authVars>>
    /\ UNCHANGED <<userVars, socialVars, datingVars, commentVars, bookmarkVars>>

\* LikeService.unlike_post: one row per LIKED edge; each is deleted and
\* counted down; without a row the function raises ValueError
UnlikePost(u, p) ==
    /\ LET n == likes[<<u, p>>] IN
       IF n > 0
       THEN /\ likes' = [likes EXCEPT ![<<u, p>>] = 0]
            /\ like_count' = [like_count EXCEPT ![p] = @ - n]
            /\ last' = Call("unlike_post", u, p, "", "None")
       ELSE /\ UNCHANGED likeVars
            /\ last' = Call("unlike_post", u, p, "", "ValueError")
    /\ UNCHANGED <<profileVars, authVars>>
    /\ UNCHANGED <<userVars, socialVars, datingVars, commentVars, bookmarkVars>>

NextLike ==
    \E u \in Users, p \in Posts :
        \/ LikePost(u, p)
        \/ UnlikePost(u, p)


\* ========================================================== CommentService

\* Comment nodes attached to post p by an ON_POST edge
CommentsOn(p) == {c \in comments : c.post = p}

\* CommentService.create_comment: a Comment node with a fresh comment_id
CreateComment(p, u) ==
    /\ next_comment < MaxComments
    /\ next_comment' = next_comment + 1
    /\ comments' = comments \cup {[id |-> next_comment + 1, post |-> p, user |-> u]}
    /\ comment_count' = [comment_count EXCEPT ![p] = @ + 1]
    /\ last' = Call("create_comment", p, u, "", "Comment")
    /\ UNCHANGED <<profileVars, authVars>>
    /\ UNCHANGED <<userVars, socialVars, datingVars, likeVars, bookmarkVars>>

\* CommentService.delete_comment: the node and its relationships are deleted;
\* the query sets no property of the post
DeleteComment(id) ==
    /\ IF \E c \in comments : c.id = id
       THEN /\ comments' = {c \in comments : c.id # id}
            /\ last' = Call("delete_comment", id, 0, "", "None")
       ELSE /\ UNCHANGED comments
            /\ last' = Call("delete_comment", id, 0, "", "CommentNotFoundError")
    /\ UNCHANGED <<comment_count, next_comment>>
    /\ UNCHANGED <<profileVars, authVars>>
    /\ UNCHANGED <<userVars, socialVars, datingVars, likeVars, bookmarkVars>>

NextComment ==
    \/ \E p \in Posts, u \in Users : CreateComment(p, u)
    \/ \E id \in CommentIds : DeleteComment(id)

SpecComment == InitPublic /\ [][NextComment]_vars

\* ========================================================= BookmarkService

\* Properties of the Bookmark node the create query writes and returns.
BookmarkNode == {"bookmark_id", "user_id", "post_id", "created_at"}

\* Required fields of the Bookmark model (BookmarkBase and Bookmark).
BookmarkModel == {"user_id", "collection_id", "bookmark_id", "post_id", "created_at"}

\* Bookmark nodes of user u on post p
BookmarksOf(u, p) == {b \in bookmarks : b.user = u /\ b.post = p}

\* Relationships of one Bookmark node: BOOKMARKED and BOOKMARKS
BookmarkRels == 2

\* a bookmark_id no existing Bookmark node carries (uuid4)
NewBookmarkId ==
    CHOOSE i \in 1..(Cardinality(bookmarks) + 1) : \A b \in bookmarks : b.id # i

\* BookmarkService.create_bookmark
CreateBookmark(p, u) ==
    /\ IF RecordBuilds(BookmarkModel, BookmarkNode)
       THEN /\ bookmarks' = bookmarks \cup
                    {[id |-> NewBookmarkId, user |-> u, post |-> p]}
            /\ bookmark_count' = [bookmark_count EXCEPT ![p] = <<Coalesce(@, 0) + 1>>]
            /\ last' = Call("create_bookmark", p, u, "", "Bookmark")
       ELSE \* Bookmark(**record["b"]) raises: rollback, BookmarkError
            /\ UNCHANGED bookmarkVars
            /\ last' = Call("create_bookmark", p, u, "", "BookmarkError")
    /\ UNCHANGED <<profileVars, authVars>>
    /\ UNCHANGED <<userVars, socialVars, datingVars, likeVars, commentVars>>

\* Rows of the remove query: one per relationship of each matched bookmark
RemoveRows(u, p) == Cardinality(BookmarksOf(u, p)) * BookmarkRels

\* remove_bookmark without the test of nodes_deleted
RemoveBookmarkUnchecked(u, p) ==
    /\ bookmarks' = bookmarks \ BookmarksOf(u, p)
    /\ bookmark_count' = [bookmark_count EXCEPT
            ![p] = IF @ = Null THEN Null ELSE <<@[1] - RemoveRows(u, p)>>]
    /\ last' = Call("remove_bookmark", u, p, "", "None")
    /\ UNCHANGED <<profileVars, authVars>>
    /\ UNCHANGED <<userVars, socialVars, datingVars, likeVars, commentVars>>

\* BookmarkService.remove_bookmark: DELETE and SET run once per row
RemoveBookmark(u, p) ==
    /\ IF BookmarksOf(u, p) # {}
       THEN /\ bookmarks' = bookmarks \ BookmarksOf(u, p)
            /\ bookmark_count' = [bookmark_count EXCEPT
                    ![p] = IF @ = Null THEN Null ELSE <<@[1] - RemoveRows(u, p)>>]
            /\ last' = Call("remove_bookmark", u, p, "", "None")
       ELSE /\ UNCHANGED bookmarkVars
            /\ last' = Call("remove_bookmark", u, p, "", "BookmarkNotFoundError")
    /\ UNCHANGED <<profileVars, authVars>>
    /\ UNCHANGED <<userVars, socialVars, datingVars, likeVars, commentVars>>

NextBookmark ==
    \E u \in Users, p \in Posts :
        \/ CreateBookmark(p, u)
        \/ RemoveBookmark(u, p)

\* Likes and bookmarks of the same posts.
NextEngagement ==
    \/ NextLike
    \/ NextBookmark

SpecEngagement == InitPublic /\ [][NextEngagement]_vars

\* a stored graph in which some users hold one bookmark on some posts, each
\* post counting its bookmarks
InitBookmarked ==
    \E S \in SUBSET (Users \X Posts) :
        InitStore([u \in Users |-> FALSE], {}, {}, {}, {}, {}, S)

SpecBookmarks == InitBookmarked /\ [][NextBookmark]_vars

\* ========================================= DatingService: profiles, matching

\* DatingService.create_dating_profile: the query CREATEs a profile node
\* whether or not the user already has one
CreateDatingProfile(u, visible) ==
    /\ Cardinality(profiles) < MaxProfiles
    /\ profiles' = profiles \cup
            {[id |-> Cardinality(profiles) + 1, user |-> u, visible |-> visible]}
    /\ last' = Call("create_dating_profile", u, 0, "", "DatingProfile")
    /\ UNCHANGED <<userVars, socialVars, datingVars, likeVars, commentVars,
                   bookmarkVars, authVars>>

\* DatingService.update_dating_profile: SET on every profile of the user
UpdateDatingProfile(u, visible) ==
    /\ IF \E p \in profiles : p.user = u
       THEN /\ profiles' = {IF p.user = u THEN [p EXCEPT !.visible = visible] ELSE p :
                              p \in profiles}
            /\ last' = Call("update_dating_profile", u, 0, "", "DatingProfile")
       ELSE /\ UNCHANGED profiles
            /\ last' = Call("update_dating_profile", u, 0, "", "ValueError")
    /\ UNCHANGED <<userVars, socialVars, datingVars, likeVars, commentVars,
                   bookmarkVars, authVars>>

\* DatingFilter, the fields the Python of _get_potential_matches reads
Filters ==
    [exclude_seen : BOOLEAN, exclude_matched : BOOLEAN,
     min_compatibility : 0..MaxScore, limit : 1..MaxLimit, offset : 0..MaxOffset]

VisibleRowAny(tp) == TRUE

\* target_profile.is_visible = true
VisibleRow(tp) == tp.visible = TRUE

\* Rows of the match query before ORDER BY: one per profile of the requester
\* and profile of another user that is visible, has no BLOCKS edge with the
\* requester in either direction. The stored profiles are taken to meet the
\* age, gender and distance conditions of the call.
QueryRows(u) ==
    {<<up.id, tp>> : up \in {p \in profiles : p.user = u},
                     tp \in {p \in profiles :
                               /\ p.user # u
                               /\ VisibleRow(p)
                               /\ <<u, p.user>> \notin blocks
                               /\ <<p.user, u>> \notin blocks}}

\* ORDER BY compatibility_score DESC: every order of the rows in which the
\* score never rises; sc is the score the query computes for each target user
OrderedRows(S, sc) ==
    {[i \in 1..Cardinality(S) |-> [profile |-> f[i][2], score |-> sc[f[i][2].user]]] :
        f \in {g \in [1..Cardinality(S) -> S] :
                 /\ \A i, j \in 1..Cardinality(S) : i # j => g[i] # g[j]
                 /\ \A i, j \in 1..Cardinality(S) :
                        i < j => sc[g[i][2].user] >= sc[g[j][2].user]}}

\* seen_ids = set(): nothing is ever added to it
SeenIds == {}

\* The three continue statements of the loop over the records
Skipped(u, f, r) ==
    \/ f.exclude_seen /\ r.profile.user \in SeenIds
    \/ f.exclude_matched /\ HasMatch(u, r.profile.user)
    \/ r.score < f.min_compatibility

\* The loop over the records: append, and break once limit profiles are kept
RECURSIVE Collect(_, _, _, _, _)
Collect(u, f, rows, i, matches) ==
    IF i > Len(rows) THEN matches
    ELSE IF Skipped(u, f, rows[i]) THEN Collect(u, f, rows, i + 1, matches)
    ELSE LET kept == Append(matches, rows[i].profile) IN
         IF Len(kept) >= f.limit THEN kept
         ELSE Collect(u, f, rows, i + 1, kept)

\* matches[filters.offset:]
Slice(matches, offset) ==
    IF offset >= Len(matches) THEN <<>>
    ELSE SubSeq(matches, offset + 1, Len(matches))

\* DatingService.get_potential_matches (a read transaction)
GetPotentialMatches(u, f, sc) ==
    /\ \E rows \in OrderedRows(QueryRows(u), sc) :
          last' = [op |-> "get_potential_matches", a |-> u, b |-> 0, c |-> "",
                   res |-> "list", filters |-> f, rows |-> rows,
                   returned |-> Slice(Collect(u, f, rows, 1, <<>>), f.offset)]
    /\ UNCHANGED <<userVars, socialVars, datingVars, likeVars, commentVars,
                   bookmarkVars, profileVars, authVars>>

NextMatches ==
    \/ \E u \in Users, visible \in BOOLEAN : CreateDatingProfile(u, visible)
    \/ \E u \in Users, visible \in BOOLEAN : UpdateDatingProfile(u, visible)
    \/ \E u \in Users, f \in Filters :
         \E sc \in [Users \ {u} -> 0..MaxScore] :
            GetPotentialMatches(u, f, sc)

\* The stored graph a match query reads, without dating profiles yet
InitMatches == InitSwiped

SpecMatches == InitMatches /\ [][NextMatches]_vars

\* ============================================================= AuthService

\* Tokens by what validate_token does with them: decoded; rejected by
\* jwt.decode with JWTClaimsError; rejected with a JWTError saying the
\* signature has expired; rejected with another JWTError; signed with a key
\* the JWKS does not list; carrying no "kid" in the header.
TokenKinds == {"valid", "claims", "expired", "malformed", "unknown_key", "no_kid"}

\* exception classes derived from AuthError
AuthErrors == {"InvalidTokenError", "TokenExpiredError", "UserNotFoundError"}

ValidateTokenLax(kind) == "ok"

\* AuthService.validate_token: "ok" or the class of the exception raised
ValidateToken(kind) ==
    CASE kind = "valid"       -> "ok"
      [] kind = "claims"      -> "InvalidTokenError"
      [] kind = "expired"     -> "TokenExpiredError"
      [] kind = "malformed"   -> "InvalidTokenError"
      [] kind = "unknown_key" -> "InvalidTokenError"
      [] kind = "no_kid"      -> "KeyError"

\* Required fields of the User model.
UserModel ==
    {"user_id", "auth_id", "username", "email", "display_name",
     "profile_picture_s3_key", "is_private", "created_at", "bio"}

\* Properties of the node _create_user_from_auth0 creates.
CreatedUserNode ==
    {"user_id", "auth_id", "username", "email", "display_name",
     "profile_picture_s3_key", "is_private", "created_at", "follower_count",
     "following_count", "likes_count", "post_count"}

\* Whether get_or_create_user commits a new User node for the subject: the
\* userinfo request succeeds, no node carries the auth_id, and the created
\* node builds a User (otherwise the transaction is rolled back).
UserCreated(sub, fetched) ==
    /\ fetched
    /\ auth_users[sub] = 0
    /\ RecordBuilds(UserModel, CreatedUserNode)

\* What get_or_create_user returns or raises; every exception, the
\* InvalidTokenError of a failed userinfo request included, leaves it as
\* UserNotFoundError.
GetOrCreateResult(sub, fetched) ==
    IF ~fetched THEN "UserNotFoundError"
    ELSE IF auth_users[sub] > 0 THEN "User"
    ELSE IF RecordBuilds(UserModel, CreatedUserNode) THEN "User"
    ELSE "UserNotFoundError"

AuthCall(op, sub, kind, res, fetched, invoked) ==
    [op |-> op, a |-> sub, b |-> 0, c |-> kind, res |-> res,
     fetched |-> fetched, invoked |-> invoked]

\* AuthService.get_or_create_user; sub is the subject the userinfo endpoint
\* reports for the token, fetched whether that request succeeds
GetOrCreateUser(sub, fetched) ==
    /\ auth_users' = IF UserCreated(sub, fetched)
                     THEN [auth_users EXCEPT ![sub] = @ + 1]
                     ELSE auth_users
    /\ last' = AuthCall("get_or_create_user", sub, "", GetOrCreateResult(sub, fetched),
                        fetched, TRUE)
    /\ UNCHANGED <<userVars, socialVars, datingVars, likeVars, commentVars,
                   bookmarkVars, profileVars>>

\* AuthService.get_current_user
GetCurrentUser(kind, sub, fetched) ==
    LET v == ValidateToken(kind) IN
    /\ IF v = "ok"
       THEN /\ auth_users' = IF UserCreated(sub, fetched)
                             THEN [auth_users EXCEPT ![sub] = @ + 1]
                             ELSE auth_users
            /\ last' = AuthCall("get_current_user", sub, kind,
                                GetOrCreateResult(sub, fetched), fetched, TRUE)
       ELSE /\ UNCHANGED auth_users
            /\ last' = AuthCall("get_current_user", sub, kind,
                                IF v \in AuthErrors THEN v ELSE "UserNotFoundError",
                                fetched, FALSE)
    /\ UNCHANGED <<userVars, socialVars, datingVars, likeVars, commentVars,
                   bookmarkVars, profileVars>>

NextAuth ==
    \E sub \in AuthIds, fetched \in BOOLEAN :
        \/ GetOrCreateUser(sub, fetched)
        \/ \E kind \in TokenKinds : GetCurrentUser(kind, sub, fetched)

\* some Auth0 subjects already have their User node
InitAuth ==
    \E registered \in SUBSET AuthIds :
        InitStore([u \in Users |-> FALSE], {}, {}, {}, {}, registered, {})

SpecAuth == InitAuth /\ [][NextAuth]_vars

\* ========================================================== ProfileService

\* an id that no User node carries; as viewer_id also the absent viewer (None)
NoUser == 0

UserIds == Users \cup {NoUser}

\* The profile query returns a row when the user exists and is_blocked is
\* false: the viewer is null or no BLOCKS edge joins viewer and user.
ProfileRow(uid, viewer) ==
    /\ uid \in Users
    /\ ~(viewer \in Users /\ Blocked(viewer, uid))

\* Keys of the map returned for a private profile the viewer does not follow.
LimitedProfile ==
    {"user_id", "username", "display_name", "is_private", "profile_picture_s3_key"}

\* user.is_private AND NOT is_following AND viewer IS NOT NULL
Limited(uid, viewer) ==
    /\ is_private[uid]
    /\ viewer \in Users
    /\ follows[<<viewer, uid>>] = 0

\* Words of the messages of the two ValueErrors _get_profile can raise: its
\* own, and the ValidationError of User(**record["profile"]).
NoRowMessage == {"user", "not", "found", "or", "you", "are", "blocked"}
ValidationMessage == {"validation", "errors", "for", "user", "field", "required"}

\* get_profile's except clause
ProfileErrorOf(message) ==
    IF "blocked" \in message THEN "ProfileAccessError" ELSE "ProfileNotFoundError"

\* ProfileService.get_profile
GetProfile(uid, viewer) ==
    /\ last' = Call("get_profile", uid, viewer, "",
            IF ~ProfileRow(uid, viewer) THEN ProfileErrorOf(NoRowMessage)
            ELSE IF Limited(uid, viewer)
                 THEN IF RecordBuilds(UserModel, LimitedProfile) THEN "User"
                      ELSE ProfileErrorOf(ValidationMessage)
            ELSE "User")
    /\ UNCHANGED <<userVars, socialVars, datingVars, likeVars, commentVars,
                   bookmarkVars, profileVars, authVars>>

\* A stored graph: accounts public or private, BLOCKS edges, and follow
\* requests still pending toward private accounts.
InitStored ==
    \E private \in [Users -> BOOLEAN], B \in SUBSET DistinctPairs :
      \E R \in SUBSET {p \in DistinctPairs : private[p[2]]} :
        InitStore(private, R, B, {}, {}, {}, {})

\* the follow and block operations on a stored graph
SpecStored == InitStored /\ [][NextSocial]_vars

NextProfile ==
    \/ NextSocial
    \/ \E uid \in UserIds, viewer \in UserIds : GetProfile(uid, viewer)

SpecProfile == InitStored /\ [][NextProfile]_vars

\* ================================================================== claims

\* everything but the record of the last call
graph == <<is_private, has_location, follower_count, following_count, follows,
           requests, blocks, dating_actions, dating_matches, match_id, likes,
          like_count,
           comments, comment_count, next_comment, bookmarks, bookmark_count,
           profiles, auth_users>>

RECURSIVE Sum(_, _)
Sum(f, S) ==
    IF S = {} THEN 0
    ELSE LET x == CHOOSE y \in S : TRUE IN f[x] + Sum(f, S \ {x})

\* FOLLOWS edges pointing to u, and leaving u
InDegree(u) == Sum([v \in Users |-> follows[<<v, u>>]], Users)
OutDegree(u) == Sum([v \in Users |-> follows[<<u, v>>]], Users)

\* ---------------------------------------------------------------------- C1
RelationshipOps ==
    {"block", "unblock", "follow_user", "accept_request", "deny_request",
     "unfollow_user", "record_dating_action"}

SelfCall(c) == c.op \in RelationshipOps /\ c.a = c.b

\* the error each service answers a self call with
SelfError(op) ==
    CASE op \in {"block", "unblock"} -> "BlockError"
      [] op = "follow_user" -> "FollowCreationError"
      [] op \in {"accept_request", "deny_request"} -> "FollowRequestNotFoundError"
      [] op = "unfollow_user" -> "FollowNotFoundError"
      [] op = "record_dating_action" -> "ActionRecordingError"

NoSelfEdge ==
    \A u \in Users :
        /\ follows[<<u, u>>] = 0
        /\ requests[<<u, u>>] = 0
        /\ <<u, u>> \notin blocks
        /\ <<u, u>> \notin dating_matches
        /\ \A ty \in ActionTypes : <<u, u, ty>> \notin dating_actions

\* C1: no user ever has a BLOCKS, FOLLOWS, REQUESTED_TO_FOLLOW, DATING_ACTION
\* or DATING_MATCH edge to themself; a call whose origin and target are the
\* same user ends in the service's domain error and leaves the graph as it was.
C1_NoSelfRelationship ==
    /\ [](NoSelfEdge /\ (SelfCall(last) => last.res = SelfError(last.op)))
    /\ [][SelfCall(last)' => UNCHANGED graph]_vars

C1_Witness ==
    /\ SelfCall(last)
    /\ last.op = "record_dating_action"
    /\ dating_actions # {}
    /\ \E p \in Pairs : follows[p] > 0

PositiveEdge(a, b) == \E ty \in PositiveTypes : <<a, b, ty>> \in dating_actions

\* C4: a DATING_MATCH edge comes into existence only in a state where each of
\* the two users has a SWIPE_RIGHT or SUPER_LIKE edge toward the other, and a
\* SWIPE_LEFT call creates no match.
C4_MatchNeedsMutualPositive ==
    [][/\ \A m \in dating_matches' \ dating_matches :
              PositiveEdge(m[1], m[2])' /\ PositiveEdge(m[2], m[1])'
       /\ (last.op = "record_dating_action" /\ last.c = "SWIPE_LEFT")' =>
              dating_matches' = dating_matches
    ]_vars

C4_Witness == dating_matches # {} /\ last.res = "DatingMatch"

\* ---------------------------------------------------------------------- C5
\* C5: record_dating_action(A, B, action) returns a DatingMatch, with a
\* DATING_MATCH edge between A and B afterwards, exactly when the action is
\* positive, B has a positive edge toward A and neither blocks the other; any
\* other call that succeeds returns None.
C5_MatchIffMutual ==
    last.op = "record_dating_action" =>
        LET mutual == /\ last.c \in PositiveTypes
                      /\ TheyLike(last.a, last.b)
                      /\ ~Blocked(last.a, last.b)
        IN  /\ (last.res = "DatingMatch" /\ HasMatch(last.a, last.b)) <=> mutual
            /\ (~mutual /\ last.res \in {"DatingMatch", "None"}) => last.res = "None"

\* ---------------------------------------------------------------------- C6
\* C6: every user's follower_count is the number of FOLLOWS edges pointing to
\* the user, and following_count the number of FOLLOWS edges leaving the user.
C6_FollowCountersMatchEdges ==
    \A u \in Users :
        /\ follower_count[u] = InDegree(u)
        /\ following_count[u] = OutDegree(u)

C6_Witness ==
    /\ last.op = "unfollow_user"
    /\ last.res = "None"
    /\ \E p \in Pairs : follows[p] > 0

\* ---------------------------------------------------------------------- C7
\* C7: a post's like_count is the number of LIKED edges pointing to it, and
\* no user has more than one LIKED edge to a post.
C7_LikeCountMatchesEdges ==
    \A p \in Posts :
        /\ like_count[p] = Sum([u \in Users |-> likes[<<u, p>>]], Users)
        /\ \A u \in Users : likes[<<u, p>>] <= 1

C7_Witness ==
    /\ last.op = "unlike_post"
    /\ last.res = "ValueError"
    /\ \E p \in Posts : like_count[p] = NumUsers

\* ---------------------------------------------------------------------- C8
\* C8: follow_user toward a private target adds only a pending request and
\* touches no counter; a FOLLOWS edge toward a private target appears only in
\* an accept_request step that consumes that pair's pending request; toward a
\* public target follow_user adds the FOLLOWS edge itself.
C8_PrivateFollowNeedsAccept ==
    [][/\ (last'.op = "follow_user" /\ is_private[last'.b]) =>
              /\ follows' = follows
              /\ follower_count' = follower_count
              /\ following_count' = following_count
              /\ last'.res = "CreateFollowRecord" =>
                     requests'[<<last'.a, last'.b>>] = requests[<<last'.a, last'.b>>] + 1
       /\ (/\ last'.op = "follow_user"
           /\ ~is_private[last'.b]
           /\ last'.res = "CreateFollowRecord") =>
              /\ follows'[<<last'.a, last'.b>>] = follows[<<last'.a, last'.b>>] + 1
              /\ requests' = requests
       /\ \A p \in Pairs :
              (follows'[p] > follows[p] /\ is_private[p[2]]) =>
                  /\ last'.op = "accept_request"
                  /\ last'.a = p[1] /\ last'.b = p[2]
                  /\ requests[p] > 0
                  /\ requests'[p] = 0
    ]_vars

C8_Witness ==
    /\ last.op = "accept_request"
    /\ last.res = "AcceptFollowRequestRecord"
    /\ is_private[last.b]
    /\ follows[<<last.a, last.b>>] = 1

\* ---------------------------------------------------------------------- C9
\* C9: a post's comment_count is the number of Comment nodes attached to it
\* by an ON_POST edge.
C9_CommentCountMatchesNodes ==
    \A p \in Posts : comment_count[p] = Cardinality(CommentsOn(p))

\* --------------------------------------------------------------------- C10
\* Bookmark nodes pointing to post p by a BOOKMARKS edge
BookmarksOn(p) == {b \in bookmarks : b.post = p}

Min(a, b) == IF a <= b THEN a ELSE b

\* the profiles of the ordered rows that the filters of the call let through
Qualifying(u, f, rows) ==
    LET keep == SelectSeq(rows, LAMBDA r : ~Skipped(u, f, r))
    IN  [i \in 1..Len(keep) |-> keep[i].profile]

\* C11: a get_potential_matches call with limit L and offset K (previously
\* seen profiles not excluded) returns positions K+1 .. K+L of the ordered
\* list of qualifying candidates.
C11_Pagination ==
    (last.op = "get_potential_matches" /\ ~last.filters.exclude_seen) =>
        LET q == Qualifying(last.a, last.filters, last.rows)
            K == last.filters.offset
            L == last.filters.limit
        IN  last.returned =
                IF K >= Len(q) THEN <<>> ELSE SubSeq(q, K + 1, Min(K + L, Len(q)))

\* --------------------------------------------------------------------- C12
\* C12: with exclude_seen true, get_potential_matches returns no profile of a
\* user toward whom the requester has a DATING_ACTION edge.
C12_ExcludeSeen ==
    (last.op = "get_potential_matches" /\ last.filters.exclude_seen) =>
        \A i \in 1..Len(last.returned) :
            \A ty \in ActionTypes :
                <<last.a, last.returned[i].user, ty>> \notin dating_actions

\* --------------------------------------------------------------------- C13
\* C13: get_potential_matches returns no profile of the requester, no profile
\* that is not visible, no profile of a user with a BLOCKS edge to or from the
\* requester and, with exclude_matched true, no profile of a user who has a
\* DATING_MATCH edge with the requester.
C13_MatchExclusions ==
    last.op = "get_potential_matches" =>
        \A i \in 1..Len(last.returned) :
            LET p == last.returned[i] IN
            /\ p.user # last.a
            /\ p.visible
            /\ ~Blocked(last.a, p.user)
            /\ last.filters.exclude_matched => ~HasMatch(last.a, p.user)

C13_Witness ==
    /\ last.op = "get_potential_matches"
    /\ last.filters.exclude_matched
    /\ Len(last.returned) > 0
    /\ \E p \in profiles : p.user # last.a /\ ~p.visible
    /\ \E p \in profiles : p.user = last.a /\ p.visible

\* --------------------------------------------------------------------- C14
\* C14: block(origin, target) for two distinct existing users returns a
\* CreateBlockRecord and a BLOCKS edge origin -> target exists afterwards.
C14_BlockCreatesEdge ==
    (last.op = "block" /\ last.a # last.b) =>
        /\ last.res = "CreateBlockRecord"
        /\ <<last.a, last.b>> \in blocks

\* --------------------------------------------------------------------- C15
\* C15: unblock(origin, target) with no BLOCKS edge origin -> target raises
\* BlockNotFoundError.
C15_UnblockNotFound ==
    (last.op = "unblock" /\ last.a # last.b /\ <<last.a, last.b>> \notin blocks) =>
        last.res = "BlockNotFoundError"

\* --------------------------------------------------------------------- C16
\* tokens that validate_token rejects with InvalidTokenError or
\* TokenExpiredError
RejectedTokens == {"claims", "expired", "malformed", "unknown_key"}

C17_OneUserPerAuthId ==
    /\ \A a \in AuthIds : auth_users[a] <= 1
    /\ (last.op = "get_or_create_user" /\ last.fetched) =>
           /\ last.res = "User"
           /\ auth_users[last.a] = 1

\* --------------------------------------------------------------------- C18
\* C18: a remove_bookmark(user, post) call made while the user has no
\* Bookmark node on the post raises BookmarkNotFoundError and changes neither
\* the Bookmark nodes nor any bookmark_count.
C18_RemoveMissingBookmark ==
    [][(last'.op = "remove_bookmark" /\ BookmarksOf(last'.a, last'.b) = {}) =>
          /\ last'.res = "BookmarkNotFoundError"
          /\ UNCHANGED bookmarkVars]_vars

C18_Witness ==
    /\ last.op = "remove_bookmark"
    /\ last.res = "BookmarkNotFoundError"
    /\ BookmarksOn(last.b) # {}
    /\ bookmark_count[last.b] # Null

\* --------------------------------------------------------------------- C19
\* C19: get_profile raises ProfileNotFoundError when no user carries the
\* requested id, and ProfileAccessError when the user exists and a BLOCKS edge
\* joins viewer and user in either direction.
C19_ProfileErrors ==
    last.op = "get_profile" =>
        /\ last.a \notin Users => last.res = "ProfileNotFoundError"
        /\ (last.a \in Users /\ last.b \in Users /\ Blocked(last.a, last.b)) =>
               last.res = "ProfileAccessError"

C21_BlockedFollowFails ==
    [][(last'.op = "follow_user" /\ Blocked(last'.a, last'.b)) =>
          /\ last'.res = "FollowCreationError"
          /\ UNCHANGED <<follows, requests, follower_count, following_count>>]_vars

C21_Witness ==
    /\ last.op = "follow_user"
    /\ last.res = "FollowCreationError"
    /\ Blocked(last.a, last.b)
    /\ follows[<<last.a, last.b>>] = 0
    /\ requests[<<last.a, last.b>>] = 0

\* --------------------------------------------------------------------- C22
\* C22: when B has just recorded SWIPE_LEFT toward A, so that it is B's most
\* recent action toward A, the next dating action of A toward B creates no
\* DATING_MATCH edge.
C22_LeftSwipeBlocksMatch ==
    [][(/\ last.op = "record_dating_action"
        /\ last.c = "SWIPE_LEFT"
        /\ last.res = "None"
        /\ last'.op = "record_dating_action"
        /\ last'.a = last.b
        /\ last'.b = last.a) =>
          dating_matches' = dating_matches]_vars

\* --------------------------------------------------------------------- C23
\* C23: a record_dating_action call made while a BLOCKS edge joins the two
\* users in either direction raises ActionRecordingError and changes no
\* DATING_ACTION and no DATING_MATCH edge.
C23_BlockedActionFails ==
    [][(/\ last'.op = "record_dating_action"
        /\ (<<last'.a, last'.b>> \in blocks \/ <<last'.b, last'.a>> \in blocks)) =>
          /\ last'.res = "ActionRecordingError"
          /\ UNCHANGED datingVars]_vars

C23_Witness ==
    /\ last.op = "record_dating_action"
    /\ last.res = "ActionRecordingError"
    /\ last.c \in PositiveTypes
    /\ <<last.b, last.a>> \in blocks
    /\ TheyLike(last.a, last.b)
    /\ DistanceKnown(last.a, last.b)
    /\ ~HasMatch(last.a, last.b)

\* --------------------------------------------------------------------- C24
RequestOps == {"accept_request", "deny_request"}

\* C24: an accept_request or deny_request that succeeds leaves no pending
\* request for its pair; one made while the pair has no pending request
\* raises FollowRequestNotFoundError and changes nothing; and only a
\* follow_user call for the pair creates a pending request.
C24_RequestConsumedOnce ==
    [][/\ (last'.op \in RequestOps /\ last'.res # "FollowRequestNotFoundError") =>
              requests'[<<last'.a, last'.b>>] = 0
       /\ (last'.op \in RequestOps /\ requests[<<last'.a, last'.b>>] = 0) =>
              /\ last'.res = "FollowRequestNotFoundError"
              /\ UNCHANGED socialVars
       /\ \A p \in Pairs :
              requests'[p] > requests[p] =>
                  last'.op = "follow_user" /\ <<last'.a, last'.b>> = p
    ]_vars

\* a request already accepted is denied
C24_Witness ==
    /\ last.op = "deny_request"
    /\ last.res = "FollowRequestNotFoundError"
    /\ is_private[last.b]
    /\ follows[<<last.a, last.b>>] = 1
    /\ requests[<<last.a, last.b>>] = 0

\* --------------------------------------------------------------------- C25
\* C25: every ordered pair of users has at most one FOLLOWS edge and at most
\* one follow request, and never both.
C25_SingleFollowOrRequest ==
    \A p \in Pairs :
        /\ follows[p] <= 1
        /\ requests[p] <= 1
        /\ ~(follows[p] > 0 /\ requests[p] > 0)

\* a second follow_user for a pair whose request is pending
C25_Witness ==
    /\ last.op = "follow_user"
    /\ last.res = "FollowCreationError"
    /\ ~Blocked(last.a, last.b)
    /\ requests[<<last.a, last.b>>] = 1
    /\ \E p \in Pairs : follows[p] = 1

\* --------------------------------------------------------------------- C26
\* C26: no two users have DATING_MATCH edges in both directions, and the
\* match_id and created_at of an existing DATING_MATCH edge never change.
C26_MatchCreatedOnce ==
    [][/\ \A p \in Pairs : match_id[p] # 0 => match_id'[p] = match_id[p]
       /\ \A p \in DistinctPairs :
              ~(p \in dating_matches' /\ <<p[2], p[1]>> \in dating_matches')
       /\ \A p \in Pairs : (p \in dating_matches') <=> (match_id'[p] # 0)
    ]_vars

\* a positive action repeated by the user who did not create the edge
C26_Witness ==
    /\ last.op = "record_dating_action"
    /\ last.res = "DatingMatch"
    /\ <<last.b, last.a>> \in dating_matches
    /\ match_id[<<last.b, last.a>>] = NumMatchIds

====
